---- MODULE Spec2Model ----
(***************************************************************************)
(* hail.genetics.KinshipMatrix: the Python handle over the engine's        *)
(* kinship matrix.  The instance state is the two fields set by __init__   *)
(* (_jkm, _key_schema); the environment is the file system the exports     *)
(* write to.  Spec is the sequential use of one instance, SpecConc is two  *)
(* threads calling methods of one constructed instance.                    *)
(***************************************************************************)
EXTENDS Integers, Sequences, FiniteSets, TLC

VARIABLES inst, ctor, _jkm, _key_schema, fs, fetches, produced, listed, iofailed,
          last, ncalls, thr

vars ==
  <<inst, ctor, _jkm, _key_schema, fs, fetches, produced, listed, iofailed, last, ncalls,
    thr>>

\* Largest sample count and matrix dimension offered to the constructor.
MaxN == 2
\* Number of method calls made on the instance in one sequential behaviour.
MaxCalls == 2
\* Width of one value of the .grm.bin layout, in bytes.
FloatBytes == 4

Max(a, b) == IF a >= b THEN a ELSE b
Min(a, b) == IF a <= b THEN a ELSE b

(***************************************************************************)
(* Arguments and paths.  A path is its sequence of components; an argument *)
(* is a Python value: a string (a path), an int, or None.                  *)
(***************************************************************************)
StrArg(p) == [t |-> "str", p |-> p]
IntArg == [t |-> "int", p |-> <<>>]
NoneArg == [t |-> "none", p |-> <<>>]

P_a == <<"d", "a">>
P_b == <<"d", "b">>
P_n == <<"d", "n">>
P_ro == <<"ro", "x">>
P_ro_n == <<"ro", "n">>

\* <output>.history.txt
HistPath(p) == p \o <<".history.txt">>

\* A path under the read-only directory cannot be created or written.
Writable(p) == p[1] # "ro"

WritablePaths == {P_a, P_b, P_n, HistPath(P_a)}
FsDom == WritablePaths \cup {HistPath(p) : p \in WritablePaths}

Outputs == {StrArg(P_a), StrArg(P_b), StrArg(P_ro), IntArg}
NFiles == {NoneArg, StrArg(P_n), StrArg(P_ro_n), IntArg}

strlike(a) == a.t = "str"
nullable_strlike(a) == a.t = "none" \/ strlike(a)

\* joption: None becomes the empty option, a value becomes Some(value).
joption(a) == IF a.t = "none" THEN <<>> ELSE <<a>>

(***************************************************************************)
(* Files.                                                                  *)
(***************************************************************************)
NoFile == [kind |-> "absent", rows |-> <<>>, code |-> <<>>]
TextFile(rows) == [kind |-> "text", rows |-> rows, code |-> <<>>]
BinFile(floats) == [kind |-> "binary", rows |-> <<floats>>, code |-> <<>>]
HistoryFile(op, p) == [kind |-> "history", rows |-> <<>>, code |-> <<op>> \o p]
EmptyFs == [p \in FsDom |-> NoFile]
ByteLen(f) == FloatBytes * Len(f.rows[1])

(***************************************************************************)
(* The engine's kinship matrix object.                                     *)
(***************************************************************************)
SampleSchemas == {"TString", "TStruct"}
NVariants == {0, 7}
Asc(n) == [i \in 1..n |-> 10 + i]
Desc(n) == [i \in 1..n |-> 11 + n - i]
IdLists == UNION {{Asc(n), Desc(n)} : n \in 0..MaxN}
Dims == 0..MaxN

BlockMatrix(d) ==
  [i \in 1..d |-> [k \in 1..d |-> IF i = k THEN 100 ELSE 10 * Max(i, k) + Min(i, k)]]

NoJkm == [sig |-> "none", bm |-> <<>>, ids |-> <<>>, nv |-> 0]

\* KinshipMatrix.apply(hc, sampleSignature, matrix, sampleIds, numVariantsUsed)
KinshipMatrixApply(sig, bm, ids, nv) ==
  IF Len(bm) = Len(ids)
  THEN [ok |-> TRUE, err |-> "none",
        jkm |-> [sig |-> sig, bm |-> bm, ids |-> ids, nv |-> nv]]
  ELSE [ok |-> FALSE, err |-> "DimensionMismatch", jkm |-> NoJkm]

sampleSignature(j) == j.sig
sampleIds(j) == j.ids
NSamples(j) == Len(j.ids)

RECURSIVE FlatUpTo(_, _)
FlatUpTo(rows, n) == IF n = 0 THEN <<>> ELSE FlatUpTo(rows, n - 1) \o rows[n]

LowerRow(j, i) == [k \in 1..i |-> j.bm[i][k]]

TsvRows(j) == <<j.ids>> \o [i \in 1..NSamples(j) |-> j.bm[i]]
RelRows(j) == [i \in 1..NSamples(j) |-> LowerRow(j, i)]
GrmRows(j) ==
  FlatUpTo([i \in 1..NSamples(j) |-> [k \in 1..i |-> <<i, k, j.nv, j.bm[i][k]>>]],
           NSamples(j))
GrmBinFloats(j) == FlatUpTo(RelRows(j), NSamples(j))
GrmNFloats(j) == [x \in 1..Len(GrmBinFloats(j)) |-> j.nv]
IdRows(j) == [i \in 1..NSamples(j) |-> <<j.ids[i], j.ids[i]>>]

JFile(m, j) ==
  CASE m = "exportTSV" -> TextFile(TsvRows(j))
    [] m = "exportRel" -> TextFile(RelRows(j))
    [] m = "exportGctaGrm" -> TextFile(GrmRows(j))
    [] m = "exportGctaGrmBin" -> BinFile(GrmBinFloats(j))
    [] m = "exportIdFile" -> TextFile(IdRows(j))

\* One write of the engine: the file is created, or the write fails.
JWrite(r, p, f, role) ==
  IF ~r.ok THEN r
  ELSE IF Writable(p)
  THEN [r EXCEPT !.files = [r.files EXCEPT ![p] = f],
                 !.writes = Append(r.writes, [path |-> p, role |-> role, file |-> f])]
  ELSE [r EXCEPT !.ok = FALSE, !.status = "IOFailure"]

\* The engine's export method m called with the arguments the wrapper passes.
JExport(m, j, output, nopt, files) ==
  LET r0 == [ok |-> TRUE, status |-> "ok", files |-> files, writes |-> <<>>,
             jcalls |-> <<[m |-> m, arg |-> output]>>]
  IN IF ~strlike(output) \/ (nopt # <<>> /\ ~strlike(nopt[1]))
     THEN [r0 EXCEPT !.ok = FALSE, !.status = "Py4JError"]
     ELSE LET r1 == JWrite(r0, output.p, JFile(m, j), "output")
          IN IF nopt = <<>> THEN r1
             ELSE JWrite(r1, nopt[1].p, BinFile(GrmNFloats(j)), "nfile")

(***************************************************************************)
(* The Python side: types, decorators, and the methods of KinshipMatrix.   *)
(***************************************************************************)
NoneType == [name |-> "None"]
\* Type._from_java(jtype)
TypeFromJava(jsig) == [name |-> jsig]
\* Type._convert_to_py(annotation)
convert_to_py(t, s) ==
  IF t.name = "TString" THEN [cls |-> "unicode", key |-> s]
  ELSE [cls |-> "Struct", key |-> s]

ExportOps == {"export_tsv", "export_rel", "export_gcta_grm", "export_gcta_grm_bin",
              "export_id_file"}

\* The engine method each export method calls.
MethodOf(op) ==
  CASE op = "export_tsv" -> "exportTSV"
    [] op = "export_rel" -> "exportRel"
    [] op = "export_gcta_grm" -> "exportGctaGrm"
    [] op = "export_gcta_grm_bin" -> "exportGctaGrmBin"
    [] op = "export_id_file" -> "exportIdFile"

\* typecheck_method: a failed check raises before the wrapped function runs.
typecheck_method(ok, files, r) ==
  IF ok THEN r
  ELSE [ok |-> FALSE, status |-> "TypeError", files |-> files, writes |-> <<>>,
        jcalls |-> <<>>]

\* write_history('output'): the wrapped function runs, then its history is written.
write_history(op, output, r) ==
  IF ~r.ok THEN r
  ELSE JWrite(r, HistPath(output.p), HistoryFile(op, output.p), "history")

\* __init__(self, jkm)
KinshipMatrixInit(jkm) == [key_schema |-> NoneType, jkm |-> jkm]

\* The property key_schema: the field after the access, and the engine calls made.
key_schema_get_nocheck(j, field) ==
  [field |-> TypeFromJava(sampleSignature(j)), n |-> 1]

key_schema_get(j, field) ==
  IF field = NoneType
  THEN [field |-> TypeFromJava(sampleSignature(j)), n |-> 1]
  ELSE [field |-> field, n |-> 0]

RECURSIVE sample_list_reversed(_, _, _, _)
sample_list_reversed(j, ids, i, st) ==
  IF i > Len(ids) THEN st
  ELSE LET g == key_schema_get(j, st.field)
       IN sample_list_reversed(j, ids, i + 1,
            [field |-> g.field, n |-> st.n + g.n,
             acc |-> <<convert_to_py(g.field, ids[i])>> \o st.acc])

\* [self.key_schema._convert_to_py(s) for s in ids], from element i on.
RECURSIVE sample_list_loop(_, _, _, _)
sample_list_loop(j, ids, i, st) ==
  IF i > Len(ids) THEN st
  ELSE LET g == key_schema_get(j, st.field)
       IN sample_list_loop(j, ids, i + 1,
            [field |-> g.field, n |-> st.n + g.n,
             acc |-> Append(st.acc, convert_to_py(g.field, ids[i]))])

\* The decorated export methods: what one call does to the files.
export_tsv_call(j, output, files) ==
  typecheck_method(strlike(output), files,
    write_history("export_tsv", output, JExport("exportTSV", j, output, <<>>, files)))

export_rel_call(j, output, files) ==
  typecheck_method(strlike(output), files,
    write_history("export_rel", output, JExport("exportRel", j, output, <<>>, files)))

export_gcta_grm_call(j, output, files) ==
  typecheck_method(strlike(output), files,
    write_history("export_gcta_grm", output,
                  JExport("exportGctaGrm", j, output, <<>>, files)))

export_gcta_grm_bin_call(j, output, opt_n_file, files) ==
  typecheck_method(strlike(output) /\ nullable_strlike(opt_n_file), files,
    write_history("export_gcta_grm_bin", output,
                  JExport("exportGctaGrmBin", j, output, joption(opt_n_file), files)))

export_id_file_call(j, output, files) ==
  typecheck_method(strlike(output), files,
    write_history("export_id_file", output,
                  JExport("exportIdFile", j, output, <<>>, files)))

(***************************************************************************)
(* Sequential use of one instance.                                         *)
(***************************************************************************)
NoCall ==
  [op |-> "none", status |-> "none", out |-> NoneArg, nf |-> NoneArg,
   jcalls |-> <<>>, writes |-> <<>>, outfile |-> NoFile, prev |-> NoFile,
   retT |-> NoneType, retL |-> <<>>, snap |-> EmptyFs]

NoCtor == [called |-> FALSE, nids |-> 0, dim |-> 0, status |-> "none"]

IdleThread ==
  [pc |-> "idle", op |-> "none", out |-> NoneArg, nf |-> NoneArg, i |-> 0,
   ids |-> <<>>, seen |-> NoneType, fetched |-> "none", status |-> "none",
   retT |-> NoneType, retL |-> <<>>, snap |-> EmptyFs]

Threads == {1, 2}

Init ==
  /\ inst = "none"
  /\ ctor = NoCtor
  /\ _jkm = NoJkm
  /\ _key_schema = NoneType
  /\ fs = EmptyFs
  /\ fetches = 0
  /\ produced = [op \in ExportOps |-> NoFile]
  /\ listed = [n |-> 0, first |-> <<>>]
  /\ iofailed = FALSE
  /\ last = NoCall
  /\ ncalls = 0
  /\ thr = [t \in Threads |-> IdleThread]

\* The engine raised, and an instance was built all the same.
_from_block_matrix_unchecked(sample_schema, bm, sample_ids, n_variants) ==
  /\ inst = "none"
  /\ LET r == KinshipMatrixApply(sample_schema, bm, sample_ids, n_variants)
         j == [sig |-> sample_schema, bm |-> bm, ids |-> sample_ids, nv |-> n_variants]
         self == KinshipMatrixInit(j)
     IN /\ ctor' = [called |-> TRUE, nids |-> Len(sample_ids), dim |-> Len(bm),
                    status |-> "ok"]
        /\ inst' = "built"
        /\ _jkm' = self.jkm
        /\ _key_schema' = self.key_schema
  /\ UNCHANGED <<fs, fetches, produced, listed, iofailed, last, ncalls, thr>>

_from_block_matrix(sample_schema, bm, sample_ids, n_variants) ==
  /\ inst = "none"
  /\ LET r == KinshipMatrixApply(sample_schema, bm, sample_ids, n_variants)
         self == KinshipMatrixInit(r.jkm)
     IN /\ ctor' = [called |-> TRUE, nids |-> Len(sample_ids), dim |-> Len(bm),
                    status |-> IF r.ok THEN "ok" ELSE r.err]
        /\ inst' = IF r.ok THEN "built" ELSE "failed"
        /\ _jkm' = IF r.ok THEN self.jkm ELSE NoJkm
        /\ _key_schema' = self.key_schema
  /\ UNCHANGED <<fs, fetches, produced, listed, iofailed, last, ncalls, thr>>

CanCall == inst = "built" /\ ncalls < MaxCalls

key_schema ==
  /\ CanCall
  /\ LET g == key_schema_get(_jkm, _key_schema)
     IN /\ _key_schema' = g.field
        /\ fetches' = fetches + g.n
        /\ last' = [NoCall EXCEPT !.op = "key_schema", !.status = "ok", !.retT = g.field]
  /\ ncalls' = ncalls + 1
  /\ UNCHANGED <<inst, ctor, _jkm, fs, produced, listed, iofailed, thr>>

sample_list ==
  /\ CanCall
  /\ LET st == sample_list_loop(_jkm, sampleIds(_jkm), 1,
                                [field |-> _key_schema, n |-> 0, acc |-> <<>>])
     IN /\ _key_schema' = st.field
        /\ fetches' = fetches + st.n
        /\ last' = [NoCall EXCEPT !.op = "sample_list", !.status = "ok", !.retL = st.acc]
        /\ listed' = [n |-> listed.n + 1,
                      first |-> IF listed.n = 0 THEN st.acc ELSE listed.first]
  /\ ncalls' = ncalls + 1
  /\ UNCHANGED <<inst, ctor, _jkm, fs, produced, iofailed, thr>>

\* self._jkm = self._jkm.matrix() in place of the return.
matrix_assigns ==
  /\ CanCall
  /\ _jkm' = [_jkm EXCEPT !.ids = <<>>, !.sig = "IndexedRowMatrix"]
  /\ last' = [NoCall EXCEPT !.op = "matrix", !.status = "ok", !.retL = _jkm.bm]
  /\ ncalls' = ncalls + 1
  /\ UNCHANGED <<inst, ctor, _key_schema, fs, fetches, produced, listed, iofailed, thr>>

matrix ==
  /\ CanCall
  /\ last' = [NoCall EXCEPT !.op = "matrix", !.status = "ok", !.retL = _jkm.bm]
  /\ ncalls' = ncalls + 1
  /\ UNCHANGED <<inst, ctor, _jkm, _key_schema, fs, fetches, produced, listed, iofailed, thr>>

\* The end of an export call: the files it left, and what the caller sees.
Finish(op, output, nf, r) ==
  LET outfile == IF r.ok THEN r.files[output.p] ELSE NoFile
  IN /\ fs' = r.files
     /\ last' = [op |-> op, status |-> r.status, out |-> output, nf |-> nf,
                 jcalls |-> r.jcalls, writes |-> r.writes, outfile |-> outfile,
                 prev |-> produced[op], retT |-> NoneType, retL |-> <<>>]
     /\ produced' = IF r.ok THEN [produced EXCEPT ![op] = outfile] ELSE produced
     /\ iofailed' = (iofailed \/ r.status = "IOFailure")
     /\ ncalls' = ncalls + 1
     /\ UNCHANGED <<inst, ctor, _jkm, _key_schema, fetches, listed, thr>>

\* The history is written to the output path itself.
export_tsv_history_at_output(output) ==
  /\ CanCall
  /\ Finish("export_tsv", output, NoneArg,
       typecheck_method(strlike(output), fs,
         LET r == JExport("exportTSV", _jkm, output, <<>>, fs)
         IN IF ~r.ok THEN r
            ELSE JWrite(r, output.p, HistoryFile("export_tsv", output.p), "history")))

export_tsv(output) ==
  /\ CanCall
  /\ Finish("export_tsv", output, NoneArg, export_tsv_call(_jkm, output, fs))

\* The engine's error is caught and dropped.
export_rel_swallow(output) ==
  /\ CanCall
  /\ LET r == export_rel_call(_jkm, output, fs)
     IN Finish("export_rel", output, NoneArg,
               IF r.status = "IOFailure" THEN [r EXCEPT !.status = "ok"] ELSE r)

export_rel(output) ==
  /\ CanCall
  /\ Finish("export_rel", output, NoneArg, export_rel_call(_jkm, output, fs))

\* The body calls exportRel, as the method above it does.
export_gcta_grm_as_rel(output) ==
  /\ CanCall
  /\ Finish("export_gcta_grm", output, NoneArg,
       typecheck_method(strlike(output), fs,
         write_history("export_gcta_grm", output,
                       JExport("exportRel", _jkm, output, <<>>, fs))))

export_gcta_grm(output) ==
  /\ CanCall
  /\ Finish("export_gcta_grm", output, NoneArg, export_gcta_grm_call(_jkm, output, fs))

\* opt_n_file is not passed on.
export_gcta_grm_bin_no_n(output, opt_n_file) ==
  /\ CanCall
  /\ Finish("export_gcta_grm_bin", output, opt_n_file,
       typecheck_method(strlike(output) /\ nullable_strlike(opt_n_file), fs,
         write_history("export_gcta_grm_bin", output,
                       JExport("exportGctaGrmBin", _jkm, output, <<>>, fs))))

export_gcta_grm_bin(output, opt_n_file) ==
  /\ CanCall
  /\ Finish("export_gcta_grm_bin", output, opt_n_file,
            export_gcta_grm_bin_call(_jkm, output, opt_n_file, fs))

\* The method without its typecheck_method decorator.
export_id_file_unchecked(output) ==
  /\ CanCall
  /\ Finish("export_id_file", output, NoneArg,
       write_history("export_id_file", output,
                     JExport("exportIdFile", _jkm, output, <<>>, fs)))

export_id_file(output) ==
  /\ CanCall
  /\ Finish("export_id_file", output, NoneArg, export_id_file_call(_jkm, output, fs))

Next ==
  \/ \E s \in SampleSchemas, d \in Dims, ids \in IdLists, nv \in NVariants :
       _from_block_matrix(s, BlockMatrix(d), ids, nv)
  \/ key_schema
  \/ sample_list
  \/ matrix
  \/ \E o \in Outputs : export_tsv(o)
  \/ \E o \in Outputs : export_rel(o)
  \/ \E o \in Outputs : export_gcta_grm(o)
  \/ \E o \in Outputs, n \in NFiles : export_gcta_grm_bin(o, n)
  \/ \E o \in Outputs : export_id_file(o)

Spec == Init /\ [][Next]_vars

(***************************************************************************)
(* Properties of the sequential use.                                       *)
(***************************************************************************)
IsExport == last.op \in ExportOps
Built == inst = "built"
N == NSamples(_jkm)
Signature == TypeFromJava(_jkm.sig)

\* C1: construction succeeds exactly when the sample-id count equals the matrix
\* dimension and fails with DimensionMismatch otherwise, so every instance that
\* exists has dimension(matrix) = len(sampleIds).
C1_ConstructionChecksDimension ==
  /\ (ctor.called /\ ctor.nids = ctor.dim) => (Built /\ ctor.status = "ok")
  /\ (ctor.called /\ ctor.nids # ctor.dim) =>
       (inst = "failed" /\ ctor.status = "DimensionMismatch")
  /\ Built => (Len(_jkm.bm) = Len(_jkm.ids) /\ Len(_jkm.ids) = ctor.nids
               /\ \A i \in 1..Len(_jkm.bm) : Len(_jkm.bm[i]) = Len(_jkm.ids))

C1_Witness == Built /\ ctor.status = "ok" /\ Len(_jkm.ids) = 2 /\ Len(_jkm.bm) = 2

C3_KeySchemaCachedOnce ==
  /\ fetches <= 1
  /\ (fetches = 0) <=> (_key_schema = NoneType)
  /\ (fetches = 1) => (_key_schema = Signature)
  /\ (last.op = "key_schema") => (last.retT = Signature /\ last.retT = _key_schema)
  /\ (Built /\ ncalls = 0) => (_key_schema = NoneType)

C3_Witness ==
  /\ last.op = "key_schema" /\ listed.n >= 1 /\ N >= 1
  /\ fetches = 1 /\ last.retT = Signature

\* C4 as claimed: no call changes any field of the instance.
C4_NoFieldChanges == [][Built => (_jkm' = _jkm /\ _key_schema' = _key_schema)]_vars

\* C4 amended: no call changes _jkm; _key_schema changes only once, from None to
\* the sample signature, in key_schema or sample_list; the exports and matrix
\* change no field.
C4_OnlyCacheFills ==
  [][Built =>
       /\ _jkm' = _jkm
       /\ \/ _key_schema' = _key_schema
          \/ /\ _key_schema = NoneType
             /\ _key_schema' = Signature
             /\ last'.op \in {"key_schema", "sample_list"}]_vars

C4_Witness ==
  /\ Built /\ _key_schema = Signature /\ last.op = "matrix" /\ ncalls = 2

\* C5: export_gcta_grm_bin writes to output the N(N+1)/2 lower-triangle values in
\* row-major order, 4 bytes each; a second file is written iff opt_n_file is
\* given, of the same byte length, every value nVariants.
C5_GrmBinLayout ==
  (last.op = "export_gcta_grm_bin" /\ last.status = "ok") =>
    LET w == last.writes
        out == fs[last.out.p]
    IN /\ w[1].role = "output" /\ w[1].path = last.out.p /\ w[1].file = out
       /\ out.kind = "binary"
       /\ Len(out.rows[1]) = (N * (N + 1)) \div 2
       /\ ByteLen(out) = 4 * ((N * (N + 1)) \div 2)
       /\ \A i \in 1..N : \A k \in 1..i :
            out.rows[1][((i - 1) * i) \div 2 + k] = _jkm.bm[i][k]
       /\ (last.nf.t # "none") <=> (\E x \in 1..Len(w) : w[x].role = "nfile")
       /\ Cardinality({x \in 1..Len(w) : w[x].role \in {"output", "nfile"}})
            = IF last.nf.t = "none" THEN 1 ELSE 2
       /\ (last.nf.t # "none") =>
            /\ w[2].role = "nfile" /\ w[2].path = last.nf.p
            /\ fs[last.nf.p] = w[2].file
            /\ w[2].file.kind = "binary"
            /\ ByteLen(w[2].file) = ByteLen(out)
            /\ \A x \in 1..Len(w[2].file.rows[1]) : w[2].file.rows[1][x] = _jkm.nv

C5_Witness ==
  /\ last.op = "export_gcta_grm_bin" /\ last.status = "ok" /\ last.nf = StrArg(P_n)
  /\ N = 2 /\ ByteLen(fs[P_n]) = 12 /\ _jkm.nv = 7

\* C6: export_gcta_grm writes N(N+1)/2 lines, one per pair 1 <= j <= i <= N and
\* none twice, each of the four fields i, j, nVariants, value(i, j).
C6_GctaGrmLines ==
  (last.op = "export_gcta_grm" /\ last.status = "ok") =>
    LET rows == fs[last.out.p].rows
    IN /\ fs[last.out.p].kind = "text"
       /\ Len(rows) = (N * (N + 1)) \div 2
       /\ \A x \in 1..Len(rows) :
            /\ Len(rows[x]) = 4
            /\ 1 <= rows[x][2] /\ rows[x][2] <= rows[x][1] /\ rows[x][1] <= N
            /\ rows[x][3] = _jkm.nv
            /\ rows[x][4] = _jkm.bm[rows[x][1]][rows[x][2]]
       /\ \A x, y \in 1..Len(rows) :
            (rows[x][1] = rows[y][1] /\ rows[x][2] = rows[y][2]) => x = y

C6_Witness ==
  /\ last.op = "export_gcta_grm" /\ last.status = "ok" /\ N = 2
  /\ Len(fs[last.out.p].rows) = 3

ExportStep == ncalls' = ncalls + 1 /\ last'.op \in ExportOps
TargetsOk(c) ==
  /\ strlike(c.out) /\ Writable(c.out.p)
  /\ (c.op = "export_gcta_grm_bin") => (c.nf.t = "none" \/ (strlike(c.nf) /\ Writable(c.nf.p)))
  /\ (c.op # "export_gcta_grm_bin") => c.nf.t = "none"
Typed(c) ==
  /\ strlike(c.out)
  /\ (c.op = "export_gcta_grm_bin") => nullable_strlike(c.nf)

\* C9: a well-typed export to an output path that cannot be written ends in
\* IOFailure and changes neither the instance nor any file; an export to
\* writable paths succeeds with the content the instance defines, also after a
\* failed call.
C9_IOFailureIsolated ==
  [][ExportStep =>
       /\ (Typed(last') /\ ~Writable(last'.out.p)) =>
            /\ last'.status = "IOFailure"
            /\ iofailed'
            /\ _jkm' = _jkm /\ _key_schema' = _key_schema
            /\ fs' = fs /\ produced' = produced
       /\ TargetsOk(last') =>
            /\ last'.status = "ok"
            /\ fs'[last'.out.p] = JFile(MethodOf(last'.op), _jkm)
            /\ last'.outfile = fs'[last'.out.p]]_vars

C9_Witness ==
  /\ iofailed /\ IsExport /\ last.status = "ok" /\ ncalls = 2 /\ N = 2
  /\ fs[last.out.p].kind # "absent"

\* C10: a call whose argument fails the type check is rejected before anything
\* else: no engine export is invoked and no output or history file is written;
\* a call that passes invokes exactly one engine export, of the method's own
\* kind, with the output path as given.
C10_TypecheckFirst ==
  IsExport =>
    LET typed == Typed(last)
    IN /\ ~typed => (last.status = "TypeError" /\ last.jcalls = <<>> /\ last.writes = <<>>)
       /\ typed => /\ last.status # "TypeError"
                   /\ Len(last.jcalls) = 1
                   /\ last.jcalls[1].arg = last.out
                   /\ last.jcalls[1].m = MethodOf(last.op)

C10_Witness ==
  /\ last.op = "export_gcta_grm_bin" /\ last.out = StrArg(P_a) /\ last.nf = IntArg
  /\ last.status = "TypeError" /\ fs[P_a].kind = "absent"

(***************************************************************************)
(* Two threads calling methods of one constructed instance.  A step is one *)
(* read or write of a field, one engine call, or one file write.           *)
(***************************************************************************)
\* The files a call writes: its output, the history of the output, the N file.
Targets(c) ==
  IF c.op \in ExportOps /\ strlike(c.out)
  THEN {c.out.p, HistPath(c.out.p)}
         \cup (IF c.op = "export_gcta_grm_bin" /\ strlike(c.nf) THEN {c.nf.p} ELSE {})
  ELSE {}

\* What the caller finds at the call's files when the call returns.
Snap(c, files) == [p \in FsDom |-> IF p \in Targets(c) THEN files[p] ELSE NoFile]

Call(op, out, nf) == [op |-> op, out |-> out, nf |-> nf]

ConcCalls ==
  {Call("key_schema", NoneArg, NoneArg),
   Call("sample_list", NoneArg, NoneArg),
   Call("export_tsv", StrArg(P_a), NoneArg),
   Call("export_rel", StrArg(P_n), NoneArg),
   Call("export_rel", IntArg, NoneArg),
   Call("export_gcta_grm", StrArg(P_ro), NoneArg),
   Call("export_gcta_grm_bin", StrArg(P_b), StrArg(P_n)),
   Call("export_id_file", StrArg(HistPath(P_a)), NoneArg)}

InitConc ==
  /\ \E s \in SampleSchemas, ids \in IdLists, nv \in NVariants :
       LET r == KinshipMatrixApply(s, BlockMatrix(Len(ids)), ids, nv)
           self == KinshipMatrixInit(r.jkm)
       IN /\ _jkm = self.jkm
          /\ _key_schema = self.key_schema
          /\ ctor = [called |-> TRUE, nids |-> Len(ids), dim |-> Len(ids), status |-> "ok"]
  /\ inst = "built"
  /\ fs = EmptyFs
  /\ fetches = 0
  /\ produced = [op \in ExportOps |-> NoFile]
  /\ listed = [n |-> 0, first |-> <<>>]
  /\ iofailed = FALSE
  /\ last = NoCall
  /\ ncalls = 0
  /\ thr = [t \in Threads |-> IdleThread]

Frame == UNCHANGED <<inst, ctor, _jkm, produced, listed, iofailed, last, ncalls>>

Goto(t, pc) == thr' = [thr EXCEPT ![t].pc = pc]

\* A thread calls a method: the outermost decorator or the first statement is next.
Begin(t, c) ==
  /\ thr[t].pc = "idle"
  /\ thr' = [thr EXCEPT ![t].op = c.op, ![t].out = c.out, ![t].nf = c.nf,
                        ![t].pc = CASE c.op = "key_schema" -> "ks_check"
                                    [] c.op = "sample_list" -> "sl_ids"
                                    [] OTHER -> "typecheck"]
  /\ UNCHANGED <<_key_schema, fs, fetches>>
  /\ Frame

Typecheck(t) ==
  /\ thr[t].pc = "typecheck"
  /\ thr' = IF strlike(thr[t].out)
               /\ (thr[t].op = "export_gcta_grm_bin" => nullable_strlike(thr[t].nf))
            THEN [thr EXCEPT ![t].pc = "jexport"]
            ELSE [thr EXCEPT ![t].pc = "done", ![t].status = "TypeError",
                             ![t].snap = Snap(thr[t], fs)]
  /\ UNCHANGED <<_key_schema, fs, fetches>>
  /\ Frame

\* The engine writes the output file.
JExportOutput(t) ==
  /\ thr[t].pc = "jexport"
  /\ LET p == thr[t].out.p
         m == MethodOf(thr[t].op)
     IN IF Writable(p)
        THEN /\ fs' = [fs EXCEPT ![p] = JFile(m, _jkm)]
             /\ Goto(t, IF thr[t].op = "export_gcta_grm_bin" /\ joption(thr[t].nf) # <<>>
                        THEN "jexport_n" ELSE "history")
        ELSE /\ fs' = fs
             /\ thr' = [thr EXCEPT ![t].pc = "done", ![t].status = "IOFailure",
                                   ![t].snap = Snap(thr[t], fs)]
  /\ UNCHANGED <<_key_schema, fetches>>
  /\ Frame

\* The engine writes the N file.
JExportN(t) ==
  /\ thr[t].pc = "jexport_n"
  /\ LET p == joption(thr[t].nf)[1].p
     IN IF Writable(p)
        THEN /\ fs' = [fs EXCEPT ![p] = BinFile(GrmNFloats(_jkm))]
             /\ Goto(t, "history")
        ELSE /\ fs' = fs
             /\ thr' = [thr EXCEPT ![t].pc = "done", ![t].status = "IOFailure",
                                   ![t].snap = Snap(thr[t], fs)]
  /\ UNCHANGED <<_key_schema, fetches>>
  /\ Frame

WriteHistory(t) ==
  /\ thr[t].pc = "history"
  /\ fs' = [fs EXCEPT ![HistPath(thr[t].out.p)] = HistoryFile(thr[t].op, thr[t].out.p)]
  /\ thr' = [thr EXCEPT ![t].pc = "done", ![t].status = "ok",
                        ![t].snap = Snap(thr[t], fs')]
  /\ UNCHANGED <<_key_schema, fetches>>
  /\ Frame

\* The field is marked as being computed before the engine is asked.
KsCheck_sentinel(t) ==
  /\ thr[t].pc = "ks_check"
  /\ thr' = [thr EXCEPT ![t].seen = _key_schema,
                        ![t].pc = IF _key_schema = NoneType THEN "ks_fetch"
                                  ELSE "ks_return"]
  /\ _key_schema' = IF _key_schema = NoneType THEN [name |-> "pending"] ELSE _key_schema
  /\ UNCHANGED <<fs, fetches>>
  /\ Frame

\* if self._key_schema is None
KsCheck(t) ==
  /\ thr[t].pc = "ks_check"
  /\ thr' = [thr EXCEPT ![t].seen = _key_schema,
                        ![t].pc = IF _key_schema = NoneType THEN "ks_fetch"
                                  ELSE "ks_return"]
  /\ UNCHANGED <<_key_schema, fs, fetches>>
  /\ Frame

\* self._jkm.sampleSignature()
KsFetch(t) ==
  /\ thr[t].pc = "ks_fetch"
  /\ thr' = [thr EXCEPT ![t].fetched = sampleSignature(_jkm), ![t].pc = "ks_store"]
  /\ fetches' = fetches + 1
  /\ UNCHANGED <<_key_schema, fs>>
  /\ Frame

\* self._key_schema = Type._from_java(...)
KsStore(t) ==
  /\ thr[t].pc = "ks_store"
  /\ _key_schema' = TypeFromJava(thr[t].fetched)
  /\ Goto(t, "ks_return")
  /\ UNCHANGED <<fs, fetches>>
  /\ Frame

\* return self._key_schema; inside sample_list the element is converted with it.
KsReturn(t) ==
  /\ thr[t].pc = "ks_return"
  /\ thr' = IF thr[t].op = "key_schema"
            THEN [thr EXCEPT ![t].retT = _key_schema, ![t].status = "ok", ![t].pc = "done"]
            ELSE [thr EXCEPT
                    ![t].retL = Append(@, convert_to_py(_key_schema, thr[t].ids[thr[t].i])),
                    ![t].i = @ + 1,
                    ![t].status = IF thr[t].i = Len(thr[t].ids) THEN "ok" ELSE @,
                    ![t].pc = IF thr[t].i = Len(thr[t].ids) THEN "done" ELSE "ks_check"]
  /\ UNCHANGED <<_key_schema, fs, fetches>>
  /\ Frame

\* self._jkm.sampleIds()
SlIds(t) ==
  /\ thr[t].pc = "sl_ids"
  /\ thr' = [thr EXCEPT ![t].ids = sampleIds(_jkm), ![t].i = 1,
                        ![t].status = IF sampleIds(_jkm) = <<>> THEN "ok" ELSE @,
                        ![t].pc = IF sampleIds(_jkm) = <<>> THEN "done" ELSE "ks_check"]
  /\ UNCHANGED <<_key_schema, fs, fetches>>
  /\ Frame

NextConc ==
  \/ \E t \in Threads, c \in ConcCalls : Begin(t, c)
  \/ \E t \in Threads : Typecheck(t)
  \/ \E t \in Threads : JExportOutput(t)
  \/ \E t \in Threads : JExportN(t)
  \/ \E t \in Threads : WriteHistory(t)
  \/ \E t \in Threads : KsCheck(t)
  \/ \E t \in Threads : KsFetch(t)
  \/ \E t \in Threads : KsStore(t)
  \/ \E t \in Threads : KsReturn(t)
  \/ \E t \in Threads : SlIds(t)

SpecConc == InitConc /\ [][NextConc]_vars

(***************************************************************************)
(* Properties of the concurrent use.                                       *)
(***************************************************************************)
\* The call run alone on the instance, from an empty directory.
Alone(c) ==
  CASE c.op = "export_tsv" -> export_tsv_call(_jkm, c.out, EmptyFs)
    [] c.op = "export_rel" -> export_rel_call(_jkm, c.out, EmptyFs)
    [] c.op = "export_gcta_grm" -> export_gcta_grm_call(_jkm, c.out, EmptyFs)
    [] c.op = "export_gcta_grm_bin" -> export_gcta_grm_bin_call(_jkm, c.out, c.nf, EmptyFs)
    [] c.op = "export_id_file" -> export_id_file_call(_jkm, c.out, EmptyFs)

AloneList ==
  sample_list_loop(_jkm, sampleIds(_jkm), 1, [field |-> NoneType, n |-> 0, acc |-> <<>>]).acc

DisjointFiles(t) ==
  \A u \in Threads \ {t} : Targets(thr[u]) \cap Targets(thr[t]) = {}

DistinctOutputs(t) ==
  \A u \in Threads \ {t} : thr[u].op \notin ExportOps \/ thr[u].out # thr[t].out

SameAsAlone(t) ==
  /\ thr[t].status = Alone(thr[t]).status
  /\ thr[t].snap = Snap(thr[t], Alone(thr[t]).files)

AccessorsSafe ==
  /\ _key_schema \in {NoneType, Signature}
  /\ \A t \in Threads :
       thr[t].pc = "done" =>
         /\ (thr[t].op = "key_schema") =>
              (thr[t].status = "ok" /\ thr[t].retT = Signature /\ _key_schema = Signature)
         /\ (thr[t].op = "sample_list") =>
              /\ thr[t].status = "ok" /\ thr[t].retL = AloneList
              /\ (N >= 1) => _key_schema = Signature

\* C8 as claimed: every call returns with the result it has when run alone,
\* provided the other call has another output path.
C8_DistinctOutputsSafe ==
  /\ AccessorsSafe
  /\ \A t \in Threads :
       (thr[t].pc = "done" /\ thr[t].op \in ExportOps /\ DistinctOutputs(t)) =>
         SameAsAlone(t)

\* C8 amended: every call returns with the result it has when run alone,
\* provided the files the calls write (output, its history file, the N file)
\* are disjoint; the cached schema ends as the engine's sample signature.
C8_DisjointFilesSafe ==
  /\ AccessorsSafe
  /\ \A t \in Threads :
       (thr[t].pc = "done" /\ thr[t].op \in ExportOps /\ DisjointFiles(t)) =>
         SameAsAlone(t)

C8_Witness ==
  /\ fetches = 2 /\ N = 2
  /\ thr[1].pc = "done" /\ thr[1].op = "key_schema"
  /\ thr[2].pc = "done" /\ thr[2].op = "sample_list"
====
